---- MODULE Spec2Model ----
(***************************************************************************)
(* A model of the versioned model registry:                                *)
(*   ModelRegistry            (model_management/model_registry.py)         *)
(*   LocalStorageBackend,                                                  *)
(*   JSONMetadataBackend,                                                  *)
(*   DatabaseMetadataBackend  (model_management/storage_backends.py)       *)
(*   SQLiteMetadataBackend    (model_management/database/                  *)
(*                             database_manager.py)                        *)
(*   deploy_model, undeploy_model,                                         *)
(*   universal_predict        (api/main.py)                                *)
(*                                                                         *)
(* Version strings are sequences of decimal digits ("10" is <<1, 0>>), so  *)
(* that str(), int() and string comparison are computed, not assumed.      *)
(* Python object identity matters to DatabaseMetadataBackend (it keeps a   *)
(* reference to, or a shallow copy of, the registry's dict), so the model  *)
(* keeps the aliasing between the two dicts and between their lists.       *)
(*                                                                         *)
(* Specifications:                                                         *)
(*   Spec              one registry: save, delete, restart                 *)
(*   SpecQuery         loads and latest-version queries on a given index   *)
(*   SpecRoundTrip     one registry: save, delete, load                    *)
(*   SpecStorageFail   saves during which the storage backend raises       *)
(*   SpecMetadataFail  saves during which the metadata backend raises      *)
(*   SpecTwo           two registries on the same stores                   *)
(*   SpecTags          saves with tags, restart                            *)
(*   SpecSqlite        SQLiteMetadataBackend called directly               *)
(*   SpecTransaction   SQLiteMetadataBackend, with calls that raise        *)
(*   SpecFind          SQLiteMetadataBackend searched by tag               *)
(*   SpecJson          JSONMetadataBackend called directly                 *)
(*   SpecFactory       create_registry with each selector                  *)
(*   SpecDeploy        deploy, undeploy and predict of api/main.py         *)
(*   SpecBookkeeping   the same, with deploys during which load_model      *)
(*                     raises                                              *)
(*   SpecLookup        saves, deletes, loads, latest-version queries,      *)
(*                     restart                                             *)
(*   SpecSaveSteps     saves that raise after some of their steps          *)
(*   SpecDeleteSteps   deletes during which the storage backend raises     *)
(*   SpecIndex         saves and deletes, failed ones included             *)
(***************************************************************************)
EXTENDS Integers, Sequences, FiniteSets, TLC

VARIABLES
    kind,               \* backend selector given to create_registry
    metadata,           \* ModelRegistry.metadata: name -> list of records
    current_metadata,   \* DatabaseMetadataBackend._current_metadata
    same_dict,          \* _current_metadata is the very dict object of metadata
    shared_lists,       \* names whose list object is shared by the two dicts
    key_order,          \* the names in the order metadata.items() yields them
    json_doc,           \* the file registry.json: whether it exists, and its document
    mr_models,          \* table mr_models: the model names
    mr_model_versions,  \* table mr_model_versions: the rows, each with its id
    mr_model_tags,      \* table mr_model_tags: (model_version_id, tag_key, tag_value)
    storage,            \* files of LocalStorageBackend: path -> pickled model
    result,             \* what the last call returned or raised
    assigned,           \* history: name -> versions returned by save_model, in order
    deleted,            \* history: names on which a delete_model succeeded
    generation,         \* number of times the registry was discarded and rebuilt
    saved_model,        \* history: (name, version) -> model of the latest save_model
                        \*          that made a record of that name and version
    failed_save,        \* history: name -> the save_model that last failed in storage
    failures,           \* history: the number of save_model calls that raised
    other,              \* the registry of the other process, while this one runs
    constructed,        \* history: the classes of which an object was constructed
    active_deployments, \* api/main.py: deployment key -> deployment info
    loaded_models       \* api/main.py: deployment key -> model object in memory

vars == <<kind, metadata, current_metadata, same_dict, shared_lists, key_order,
          json_doc,
          mr_models, mr_model_versions, mr_model_tags, storage, result, assigned,
          deleted, generation, saved_model, failed_save, failures, other,
          constructed, active_deployments, loaded_models>>

\* The two dicts of the deployment layer.
deployments == <<active_deployments, loaded_models>>

\* What a call that only reads, or that raises at once, leaves alone.
histories == <<assigned, deleted, generation, saved_model, failed_save,
              failures, other, constructed, deployments>>
tables == <<mr_models, mr_model_versions, mr_model_tags>>

----------------------------------------------------------------------------
(* Bounds of the model                                                     *)

Names == {"a", "b"}
NamesInOrder == <<"a", "b">>     \* the names as ORDER BY name sorts them
Artifacts == {"m1", "m2"}
MaxSaves == 3
MaxRestarts == 1
MaxFailures == 3
MaxRowId == 3
MaxQueryVersion == 11
MaxQueryLen == 2
MaxCreates == 3
MaxRequests == 1

----------------------------------------------------------------------------
(* Strings of digits                                                       *)

\* str(n) for a natural number n: its decimal digits.
RECURSIVE str(_)
str(n) == IF n < 10 THEN <<n>> ELSE Append(str(n \div 10), n % 10)

\* int(s) for a string of decimal digits.
RECURSIVE int(_)
int(s) == IF Len(s) = 0 THEN 0
          ELSE int(SubSeq(s, 1, Len(s) - 1)) * 10 + s[Len(s)]

\* The version argument None of load_model / delete_model.
None == <<>>

\* The dict {}.
EmptyDict == <<>>

\* The document before JSONMetadataBackend first writes it.
NoFile == [exists |-> FALSE, valid |-> TRUE, doc |-> <<>>]

\* registry.json after open(path, 'w') truncated it and json.dump did not
\* finish: not a JSON document.
Truncated == [exists |-> TRUE, valid |-> FALSE, doc |-> <<>>]

----------------------------------------------------------------------------
(* Tags.  A tag value is a Python int or a Python str: 5 and "5" are       *)
(* different values, and str(5) is "5".                                    *)

py_int(n) == [type |-> "int", num |-> n, text |-> <<>>]
py_str(s) == [type |-> "str", num |-> 0, text |-> s]

\* str(tag_value)
str_of(value) == IF value.type = "int" THEN py_str(str(value.num)) ELSE value

\* A dict of tags with every value turned into its string.
stringified(tags) == [k \in DOMAIN tags |-> str_of(tags[k])]

\* tags or {} for tags = None
NoTags == <<>>

\* The tags arguments of save_model: none, a number, a string.
TagDicts == {NoTags, ("k" :> py_int(5)), ("k" :> py_str(<<5>>))}

\* os.path.getsize of the pickle of a model.
getsize(model) == IF model = "m1" THEN 100 ELSE 200

----------------------------------------------------------------------------
(* ModelRegistry: the pure parts                                           *)

\* Every model under one directory, whatever its name.
model_path_flat(name, version) ==
    [dir |-> "models", vdir |-> version, file |-> "model.pkl"]

\* The path without the version: every version of a name in one file.
model_path_unversioned(name, version) ==
    [dir |-> name, vdir |-> None, file |-> "model.pkl"]

\* model_path = f"{name}/v{version}/model.pkl"
model_path(name, version) ==
    [dir |-> name, vdir |-> version, file |-> "model.pkl"]

\* The model_info dict that save_model builds.
model_info(name, version, tags, file_size) ==
    [name |-> name, version |-> version, tags |-> tags,
     storage_path |-> model_path(name, version), file_size |-> file_size]

\* No record: what stands for the info of a lookup that raised.
NoInfo(name) == model_info(name, None, NoTags, 0)

\* "name in d" for a dict d.
HasKey(d, name) == name \in DOMAIN d

\* s < t for two strings of digits, as Python compares strings.
str_less(s, t) ==
    \E i \in 1..(Len(t)) :
        /\ \A j \in 1..(i - 1) : j <= Len(s) /\ s[j] = t[j]
        /\ (i > Len(s) \/ s[i] < t[i])

\* max(lst, key=lambda x: x['version']): the versions compared as strings.
max_by_string(lst) ==
    LET best == CHOOSE i \in 1..Len(lst) :
                    /\ \A j \in 1..Len(lst) : ~str_less(lst[i].version, lst[j].version)
                    /\ \A j \in 1..(i - 1) : str_less(lst[j].version, lst[i].version)
    IN  lst[best]

\* max(lst, key=lambda x: int(x['version'])): the first record of greatest key.
max_by_version(lst) ==
    LET best == CHOOSE i \in 1..Len(lst) :
                    /\ \A j \in 1..Len(lst) : int(lst[j].version) <= int(lst[i].version)
                    /\ \A j \in 1..(i - 1) : int(lst[j].version) < int(lst[i].version)
    IN  lst[best]

\* max(int(info['version']) for info in lst), for a non-empty lst.
max_version(lst) ==
    CHOOSE m \in {int(lst[i].version) : i \in 1..Len(lst)} :
        \A i \in 1..Len(lst) : int(lst[i].version) <= m

\* len(lst) + 1 instead of max + 1: a number that is in use after a delete.
next_version_by_count(md, name) ==
    IF ~HasKey(md, name) \/ Len(md[name]) = 0 THEN str(1)
    ELSE str(Len(md[name]) + 1)

\* The maximum taken over the records of every name, not of this name only.
next_version_all_names(md, name) ==
    LET all == UNION {{int(md[n][i].version) : i \in 1..Len(md[n])} : n \in DOMAIN md}
    IN  IF all = {} THEN str(1)
        ELSE str((CHOOSE m \in all : \A k \in all : k <= m) + 1)

\* The version after that of the first record of the list, not of the greatest.
next_version_after_first(md, name) ==
    IF ~HasKey(md, name) \/ Len(md[name]) = 0 THEN str(1)
    ELSE str(int(md[name][1].version) + 1)

\* ModelRegistry._get_next_version
_get_next_version(md, name) ==
    IF ~HasKey(md, name) \/ Len(md[name]) = 0 THEN str(1)
    ELSE str(max_version(md[name]) + 1)

\* An explicit version that is not there falls back to the latest, no error.
get_model_info_fallback(md, name, version) ==
    IF ~HasKey(md, name) THEN [found |-> FALSE, info |-> NoInfo(name)]
    ELSE IF \E i \in 1..Len(md[name]) : md[name][i].version = version
         THEN [found |-> TRUE,
               info  |-> md[name][CHOOSE i \in 1..Len(md[name]) :
                            md[name][i].version = version]]
         ELSE [found |-> TRUE, info |-> max_by_version(md[name])]

\* ModelRegistry._get_model_info: [found, info]; found = FALSE is the ValueError.
_get_model_info(md, name, version) ==
    IF ~HasKey(md, name) THEN [found |-> FALSE, info |-> NoInfo(name)]
    ELSE IF version = None
         THEN [found |-> TRUE, info |-> max_by_version(md[name])]
         ELSE IF \E i \in 1..Len(md[name]) : md[name][i].version = version
              THEN [found |-> TRUE,
                    info  |-> md[name][CHOOSE i \in 1..Len(md[name]) :
                                 /\ md[name][i].version = version
                                 /\ \A j \in 1..(i - 1) : md[name][j].version # version]]
              ELSE [found |-> FALSE, info |-> NoInfo(name)]

----------------------------------------------------------------------------
(* The two dicts and their lists as Python objects.  A heap h is           *)
(*   md     the contents of ModelRegistry.metadata                         *)
(*   cur    the contents of DatabaseMetadataBackend._current_metadata      *)
(*   same   the two are one dict object (after load_metadata)              *)
(*   shared the names whose list is one list object in both dicts          *)
(*          (after metadata.copy(), a shallow copy)                        *)
(*   order  the keys of md in the order of their insertion, the order in   *)
(*          which DatabaseMetadataBackend.save_metadata goes through       *)
(*          metadata.items(); JSONMetadataBackend does not iterate, and    *)
(*          with it the order is not kept                                  *)

Heap == [md |-> metadata, cur |-> current_metadata,
         same |-> same_dict, shared |-> shared_lists, order |-> key_order]

\* The keys of h.md after name was set: a new key comes last.
keys_with(h, name) ==
    IF kind = "local" THEN <<>>
    ELSE IF name \in DOMAIN h.md THEN h.order ELSE Append(h.order, name)

\* The keys of h.md after name was deleted.
keys_without(h, name) == SelectSeq(h.order, LAMBDA k : k # name)

\* self.metadata[name] = lst, with lst a new list object.
dict_setitem(h, name, lst) ==
    LET md2 == [k \in DOMAIN h.md \cup {name} |-> IF k = name THEN lst ELSE h.md[k]]
    IN  IF h.same
        THEN [h EXCEPT !.md = md2, !.cur = md2, !.shared = DOMAIN md2,
                       !.order = keys_with(h, name)]
        ELSE [h EXCEPT !.md = md2, !.shared = @ \ {name},
                       !.order = keys_with(h, name)]

\* self.metadata[name].append(info): changes the list object in place.
list_append(h, name, info) ==
    LET md2 == [h.md EXCEPT ![name] = Append(@, info)]
    IN  IF h.same
        THEN [h EXCEPT !.md = md2, !.cur = md2]
        ELSE IF name \in h.shared
             THEN [h EXCEPT !.md = md2, !.cur = [h.cur EXCEPT ![name] = Append(@, info)]]
             ELSE [h EXCEPT !.md = md2]

\* The del statement left out: the name stays, with an empty list.
dict_delitem_skipped(h, name) == h

\* del self.metadata[name]
dict_delitem(h, name) ==
    LET md2 == [k \in DOMAIN h.md \ {name} |-> h.md[k]]
    IN  IF h.same
        THEN [h EXCEPT !.md = md2, !.cur = md2, !.shared = DOMAIN md2,
                       !.order = keys_without(h, name)]
        ELSE [h EXCEPT !.md = md2, !.shared = @ \ {name},
                       !.order = keys_without(h, name)]

----------------------------------------------------------------------------
(* LocalStorageBackend                                                     *)

\* LocalStorageBackend.save_model: open(full_path, 'wb') creates or overwrites.
storage_save_model(st, model, path) ==
    [p \in DOMAIN st \cup {path} |-> IF p = path THEN model ELSE st[p]]

\* LocalStorageBackend.delete_model: removes the file if it exists.
storage_delete_model(st, path) ==
    [p \in DOMAIN st \ {path} |-> st[p]]

\* LocalStorageBackend.model_exists
model_exists(st, path) == path \in DOMAIN st

\* LocalStorageBackend.get_model_size: the size of the file, 0 without one.
get_model_size(st, path) == IF model_exists(st, path) THEN getsize(st[path]) ELSE 0

\* What open(full_path, 'wb') and a pickle.dump that raised leave in the file.
PartialFile == "partial"

----------------------------------------------------------------------------
(* JSONMetadataBackend                                                     *)

\* A tag value as json.dump writes it: a number literal or a string literal.
json_value(value) ==
    IF value.type = "int" THEN [json |-> "number", lit |-> str(value.num)]
    ELSE [json |-> "string", lit |-> value.text]

\* The Python value json.load makes of a literal.
python_value(j) ==
    IF j.json = "number" THEN py_int(int(j.lit)) ELSE py_str(j.lit)

\* The document updated name by name: the names of the document that the
\* index does not hold stay.
json_dump_update(md) ==
    LET new == [n \in DOMAIN md |->
                  [i \in 1..Len(md[n]) |->
                     [md[n][i] EXCEPT !.tags =
                         [k \in DOMAIN md[n][i].tags |-> json_value(md[n][i].tags[k])]]]]
    IN  [exists |-> TRUE, valid |-> TRUE,
         doc |-> [n \in DOMAIN md \cup DOMAIN json_doc.doc |->
                     IF n \in DOMAIN md THEN new[n] ELSE json_doc.doc[n]]]

\* json.dump(metadata): names, versions and paths are strings and sizes
\* numbers, written as they are; the tag values are written as literals.
json_dump(md) ==
    [exists |-> TRUE, valid |-> TRUE,
     doc |-> [n \in DOMAIN md |->
                [i \in 1..Len(md[n]) |->
                   [md[n][i] EXCEPT !.tags =
                       [k \in DOMAIN md[n][i].tags |-> json_value(md[n][i].tags[k])]]]]]

\* JSONMetadataBackend.load_metadata: {} when the file does not exist.
json_load_metadata(file) ==
    IF ~file.exists THEN EmptyDict
    ELSE [n \in DOMAIN file.doc |->
            [i \in 1..Len(file.doc[n]) |->
               [file.doc[n][i] EXCEPT !.tags =
                   [k \in DOMAIN file.doc[n][i].tags |->
                       python_value(file.doc[n][i].tags[k])]]]]

----------------------------------------------------------------------------
(* SQLiteMetadataBackend.  A database db is [models, versions, tags]: the  *)
(* names of mr_models, the rows of mr_model_versions, each with its id and *)
(* the name of its model (the join on model_id), and the rows of           *)
(* mr_model_tags.  DatabaseManager.get_connection never issues             *)
(* PRAGMA foreign_keys = ON, so SQLite enforces no foreign key and         *)
(* cascades no delete, whatever the tables declare.                        *)

Database == [models |-> mr_models, versions |-> mr_model_versions,
             tags |-> mr_model_tags]

EmptyDatabase == [models |-> {}, versions |-> {}, tags |-> {}]

\* cursor.lastrowid of the INSERT into mr_model_versions: an id that no row
\* of mr_model_versions has and no row of mr_model_tags refers to.
lastrowid(db) ==
    LET used == {r.id : r \in db.versions} \cup {t.model_version_id : t \in db.tags}
    IN  IF used = {} THEN 1 ELSE (CHOOSE m \in used : \A k \in used : k <= m) + 1

\* SQLiteMetadataBackend.save_model_metadata: _get_or_create_model, INSERT of
\* the version row, INSERT OR REPLACE of a row per tag with str(tag_value).
\* The migration that creates the tables is not among the sources; the layout
\* of mr_model_versions names no uniqueness of (model_id, version), so a second
\* row of the same name and version is accepted.
save_model_metadata(db, info) ==
    LET version_id == lastrowid(db)
    IN  [models   |-> db.models \cup {info.name},
         versions |-> db.versions \cup
                        {[id |-> version_id, name |-> info.name,
                          version |-> info.version,
                          storage_path |-> info.storage_path,
                          file_size_bytes |-> info.file_size]},
         tags     |-> {t \in db.tags : ~(/\ t.model_version_id = version_id
                                         /\ t.tag_key \in DOMAIN info.tags)}
                      \cup {[model_version_id |-> version_id, tag_key |-> k,
                             tag_value |-> str_of(info.tags[k])] :
                                k \in DOMAIN info.tags}]

\* The tables as the connection of a save_model_metadata call sees them when
\* an exception ends the call: _get_or_create_model raised, or the INSERT of
\* the version row after the model row was made, or the INSERT of a tag with
\* the version row and some tag rows made, or the commit with all of them.
statements_done(db, info) ==
    LET all        == save_model_metadata(db, info)
        version_id == lastrowid(db)
    IN  {db, [db EXCEPT !.models = @ \cup {info.name}]} \cup
        {[all EXCEPT !.tags = {t \in all.tags : \/ t.model_version_id # version_id
                                                \/ t.tag_key \in done}] :
            done \in SUBSET DOMAIN info.tags}

\* A connection in autocommit mode: what a statement wrote stays.
rollback_autocommit(committed, working) == working

\* DatabaseManager.get_connection, except Exception: conn.rollback().  The
\* connection is opened by sqlite3.connect with its default isolation level,
\* so the first INSERT begins a transaction, which holds every row of the call.
rollback(committed, working) == committed

\* SQLiteMetadataBackend.delete_model_version: DELETE of the rows of that
\* name and version, then DELETE of the models that have no version left.
\* No statement deletes from mr_model_tags.
delete_model_version(db, name, version) ==
    LET kept == {r \in db.versions : ~(r.name = name /\ r.name \in db.models
                                       /\ r.version = version)}
    IN  [models   |-> {m \in db.models : \E r \in kept : r.name = m},
         versions |-> kept,
         tags     |-> db.tags]

\* The tags dict load_metadata fills for the version row of this id.
tags_of(db, version_id) ==
    LET ts == {t \in db.tags : t.model_version_id = version_id}
    IN  [k \in {t.tag_key : t \in ts} |->
            (CHOOSE t \in ts : t.tag_key = k).tag_value]

\* The version_info dict load_metadata builds of a row.
version_info(db, r) ==
    [model_info(r.name, r.version, tags_of(db, r.id), r.file_size_bytes)
        EXCEPT !.storage_path = r.storage_path]

\* Rows ORDER BY CAST(version AS INTEGER); rows of one version in id order.
RECURSIVE order_by_version(_)
order_by_version(rows) ==
    IF rows = {} THEN <<>>
    ELSE LET r == CHOOSE r \in rows :
                      \A q \in rows :
                          \/ int(r.version) < int(q.version)
                          \/ int(r.version) = int(q.version) /\ r.id <= q.id
         IN  <<r>> \o order_by_version(rows \ {r})

\* The rows of the model called name (mr_models JOIN mr_model_versions).
rows_of(db, name) ==
    {r \in db.versions : r.name = name /\ r.name \in db.models}

\* SQLiteMetadataBackend.load_metadata
sqlite_load_metadata(db) ==
    LET names == {r.name : r \in {q \in db.versions : q.name \in db.models}}
    IN  [n \in names |->
            LET rows == order_by_version(rows_of(db, n))
            IN  [i \in 1..Len(rows) |-> version_info(db, rows[i])]]

\* SUM(file_size_bytes) over a set of rows, with "or 0" for the NULL of no row.
RECURSIVE sum_file_size_bytes(_)
sum_file_size_bytes(rows) ==
    IF rows = {} THEN 0
    ELSE LET r == CHOOSE r \in rows : TRUE
         IN  r.file_size_bytes + sum_file_size_bytes(rows \ {r})

\* MAX(CAST(version AS INTEGER)) over a set of rows, and
\* str(latest_version) if latest_version else '0'.
latest_version(rows) ==
    LET numbers == {int(r.version) : r \in rows}
        latest  == IF numbers = {} THEN 0
                   ELSE CHOOSE m \in numbers : \A k \in numbers : k <= m
    IN  IF latest # 0 THEN str(latest) ELSE str(0)

\* SQLiteMetadataBackend.get_statistics: the summary over mr_models LEFT JOIN
\* mr_model_versions, and the same per model (GROUP BY m.id, m.name).
get_statistics(db) ==
    [summary |->
        [total_models     |-> Cardinality(db.models),
         total_versions   |-> Cardinality({r \in db.versions : r.name \in db.models}),
         total_size_bytes |->
             sum_file_size_bytes({r \in db.versions : r.name \in db.models})],
     models |->
        [m \in db.models |->
            [version_count    |-> Cardinality(rows_of(db, m)),
             total_size_bytes |-> sum_file_size_bytes(rows_of(db, m)),
             latest_version   |-> latest_version(rows_of(db, m))]]]

\* tag_value = None, the default of find_models_by_tag.
NoValue == [type |-> "none", num |-> 0, text |-> <<>>]

\* The place of a name in ORDER BY m.name.
name_index(name) == CHOOSE i \in 1..Len(NamesInOrder) : NamesInOrder[i] = name

\* Rows of the join ORDER BY m.name, CAST(mv.version AS INTEGER); rows that
\* are equal in both come in the order of the ids of their version rows.
RECURSIVE order_by_name_version(_)
order_by_name_version(joined) ==
    IF joined = {} THEN <<>>
    ELSE LET p == CHOOSE p \in joined :
                      \A q \in joined :
                          \/ name_index(p[1].name) < name_index(q[1].name)
                          \/ /\ p[1].name = q[1].name
                             /\ int(p[1].version) < int(q[1].version)
                          \/ /\ p[1].name = q[1].name
                             /\ int(p[1].version) = int(q[1].version)
                             /\ p[1].id <= q[1].id
         IN  <<p>> \o order_by_name_version(joined \ {p})

\* The dict find_models_by_tag makes of a row of the join.
match_of(p) ==
    [name |-> p[1].name, version |-> p[1].version,
     tag_key |-> p[2].tag_key, tag_value |-> p[2].tag_value]

\* The second query used whatever tag_value is: every row of the key.
find_models_by_tag_any_value(db, tag_key, tag_value) ==
    LET joined == {p \in db.versions \X db.tags :
                      /\ p[1].name \in db.models
                      /\ p[2].model_version_id = p[1].id
                      /\ p[2].tag_key = tag_key}
        rows == order_by_name_version(joined)
    IN  [i \in 1..Len(rows) |-> match_of(rows[i])]

\* SQLiteMetadataBackend.find_models_by_tag: mr_models JOIN mr_model_versions
\* JOIN mr_model_tags WHERE tag_key = ? (AND tag_value = ?), a dict per row.
find_models_by_tag(db, tag_key, tag_value) ==
    LET joined == {p \in db.versions \X db.tags :
                      /\ p[1].name \in db.models
                      /\ p[2].model_version_id = p[1].id
                      /\ p[2].tag_key = tag_key
                      /\ tag_value # NoValue => p[2].tag_value = tag_value}
        rows == order_by_name_version(joined)
    IN  [i \in 1..Len(rows) |-> match_of(rows[i])]

----------------------------------------------------------------------------
(* DatabaseMetadataBackend                                                 *)

\* The records DatabaseMetadataBackend.save_metadata passes to
\* save_model_metadata, in this order: every record of a name that is not in
\* _current_metadata, and the records of unseen version of the other names.
RECURSIVE new_versions(_, _, _)
new_versions(md, cur, order) ==
    IF order = <<>> THEN <<>>
    ELSE LET n == Head(order)
             seen == IF HasKey(cur, n)
                     THEN {cur[n][i].version : i \in 1..Len(cur[n])}
                     ELSE {}
         IN  SelectSeq(md[n], LAMBDA info : info.version \notin seen)
                 \o new_versions(md, cur, Tail(order))

RECURSIVE insert_all(_, _)
insert_all(db, infos) ==
    IF infos = <<>> THEN db
    ELSE insert_all(save_model_metadata(db, Head(infos)), Tail(infos))

\* DatabaseMetadataBackend.save_metadata(self.metadata), on the database ...
db_save_metadata_rows(h, db) ==
    insert_all(db, new_versions(h.md, h.cur, h.order))

\* ... and on the heap: self._current_metadata = metadata.copy()
db_save_metadata_heap(h) ==
    [h EXCEPT !.cur = h.md, !.same = FALSE, !.shared = DOMAIN h.md]

----------------------------------------------------------------------------
(* The calls                                                               *)

\* What a call returned or raised: the version save_model and
\* get_latest_version return, the model load_model returns with the version it
\* reports having loaded, or the exception.
Returned(status, ret_version, ret_model) ==
    [status |-> status, ret_version |-> ret_version, ret_model |-> ret_model]

NoModel == "no model"

\* What find_models_by_tag returned: the list of its dicts.
Found(matches) == [status |-> "ok", found |-> matches]

\* self.metadata_backend.save_metadata(self.metadata), with the heap h as the
\* registry left it: JSONMetadataBackend rewrites the document,
\* DatabaseMetadataBackend inserts what it takes for new and copies the dict.
Persist(h) ==
    IF kind = "local"
    THEN /\ json_doc' = json_dump(h.md)
         /\ metadata' = h.md
         /\ key_order' = h.order
         /\ UNCHANGED <<current_metadata, same_dict, shared_lists, tables>>
    ELSE LET db == db_save_metadata_rows(h, Database)
             h2 == db_save_metadata_heap(h)
         IN  /\ mr_models' = db.models
             /\ mr_model_versions' = db.versions
             /\ mr_model_tags' = db.tags
             /\ key_order' = h2.order
             /\ metadata' = h2.md
             /\ current_metadata' = h2.cur
             /\ same_dict' = h2.same
             /\ shared_lists' = h2.shared
             /\ UNCHANGED json_doc

\* The number of save_model calls made so far.
RECURSIVE SumLen(_, _)
SumLen(f, S) ==
    IF S = {} THEN 0
    ELSE LET n == CHOOSE n \in S : TRUE IN Len(f[n]) + SumLen(f, S \ {n})

SavesSoFar == SumLen(assigned, Names)

\* No save_model of the name has failed in the storage backend since the
\* index last changed under the name.
NoFailure == [version |-> None, open |-> FALSE]

\* saved_model once save_model has made the record of (name, version).
remembered(name, version, model) ==
    [k \in DOMAIN saved_model \cup {<<name, version>>} |->
        IF k = <<name, version>> THEN model ELSE saved_model[k]]

\* The heap after save_model appended the record of the new version.
appended(name, info) ==
    list_append(IF ~HasKey(metadata, name)
                THEN dict_setitem(Heap, name, <<>>)
                ELSE Heap,
                name, info)

\* ModelRegistry.save_model(model, name, tags=tags)
SaveModel(model, name, tags) ==
    LET version == _get_next_version(metadata, name)
        path    == model_path(name, version)
        stored  == storage_save_model(storage, model, path)
        info    == model_info(name, version, tags, get_model_size(stored, path))
    IN  /\ SavesSoFar < MaxSaves
        /\ storage' = stored
        /\ Persist(appended(name, info))
        /\ result' = Returned("ok", version, NoModel)
        /\ assigned' = [assigned EXCEPT ![name] = Append(@, version)]
        /\ saved_model' = remembered(name, version, model)
        /\ failed_save' = [failed_save EXCEPT ![name] =
                              IF @.open THEN [@ EXCEPT !.open = FALSE] ELSE NoFailure]
        /\ UNCHANGED <<kind, deleted, generation, failures, other, constructed,
                   deployments>>

\* save_model appending the record before it stores the file: a failure of
\* the storage backend leaves the record in the index.
SaveModelAppendsFirst(model, name) ==
    LET version == _get_next_version(metadata, name)
        h       == appended(name, model_info(name, version, NoTags, 0))
    IN  /\ failures < MaxFailures
        /\ failures' = failures + 1
        /\ metadata' = h.md
        /\ current_metadata' = h.cur
        /\ same_dict' = h.same
        /\ shared_lists' = h.shared
        /\ key_order' = h.order
        /\ result' = Returned("OSError", None, NoModel)
        /\ failed_save' = [failed_save EXCEPT ![name] =
                              [version |-> version, open |-> TRUE]]
        /\ UNCHANGED <<kind, json_doc, tables, storage, assigned, deleted,
                       generation, saved_model, other, constructed,
                   deployments>>

\* save_model with the steps in another order: the record appended and the
\* index saved, and the file stored last, where the storage backend raises.
SaveModelPersistsFirst(model, name) ==
    LET version == _get_next_version(metadata, name)
        h       == appended(name, model_info(name, version, NoTags, 0))
    IN  /\ failures < MaxFailures
        /\ failures' = failures + 1
        /\ Persist(h)
        /\ result' = Returned("OSError", None, NoModel)
        /\ failed_save' = [failed_save EXCEPT ![name] =
                              [version |-> version, open |-> TRUE]]
        /\ UNCHANGED <<kind, storage, assigned, deleted,
                       generation, saved_model, other, constructed,
                       deployments>>

\* save_model when the storage backend raises: storage_backend.save_model
\* before it opened the file, or with the file opened and the pickle not
\* finished, or get_model_size after the file was written.  save_model has
\* no handler: the exception leaves it before the index is touched.
SaveModelStorageFails(model, name) ==
    LET version == _get_next_version(metadata, name)
        path    == model_path(name, version)
    IN  /\ failures < MaxFailures
        /\ failures' = failures + 1
        /\ storage' \in {storage,
                         storage_save_model(storage, PartialFile, path),
                         storage_save_model(storage, model, path)}
        /\ result' = Returned("OSError", None, NoModel)
        /\ failed_save' = [failed_save EXCEPT ![name] =
                              [version |-> version, open |-> TRUE]]
        /\ UNCHANGED <<kind, metadata, current_metadata, same_dict,
                       shared_lists, key_order,
                       json_doc, tables, assigned, deleted, generation,
                       saved_model, other, constructed,
                   deployments>>

\* save_model when metadata_backend.save_metadata raises.  The file is
\* written and the record appended by then, and save_model has no handler.
\* JSONMetadataBackend: open(path, 'w') raised, or it truncated the file and
\* json.dump did not finish.  DatabaseMetadataBackend: one of the
\* save_model_metadata calls raised; each call is a transaction of its own,
\* so the rows of the calls before it are committed, and the assignment of
\* _current_metadata is not reached.
SaveModelMetadataFails(model, name, tags) ==
    LET version == _get_next_version(metadata, name)
        path    == model_path(name, version)
        stored  == storage_save_model(storage, model, path)
        info    == model_info(name, version, tags, get_model_size(stored, path))
        h       == appended(name, info)
        new     == new_versions(h.md, h.cur, h.order)
    IN  /\ failures < MaxFailures
        /\ failures' = failures + 1
        /\ storage' = stored
        /\ metadata' = h.md
        /\ current_metadata' = h.cur
        /\ same_dict' = h.same
        /\ shared_lists' = h.shared
        /\ key_order' = h.order
        /\ IF kind = "local"
           THEN /\ json_doc' \in {json_doc, Truncated}
                /\ UNCHANGED tables
           ELSE /\ \E k \in 1..Len(new) :
                       LET db == insert_all(Database, SubSeq(new, 1, k - 1))
                       IN  /\ mr_models' = db.models
                           /\ mr_model_versions' = db.versions
                           /\ mr_model_tags' = db.tags
                /\ UNCHANGED json_doc
        /\ result' = Returned("StoreError", None, NoModel)
        /\ saved_model' = remembered(name, version, model)
        /\ failed_save' = [failed_save EXCEPT ![name] = NoFailure]
        /\ UNCHANGED <<kind, assigned, deleted, generation, other, constructed,
                   deployments>>

\* ModelRegistry.load_model(name, version)
LoadModel(name, version) ==
    LET r == _get_model_info(metadata, name, version)
    IN  /\ result' =
              IF ~r.found
              THEN Returned("ValueError", None, NoModel)
              ELSE IF ~model_exists(storage, r.info.storage_path)
                   THEN Returned("FileNotFoundError",
                                 None, NoModel)
                   ELSE IF storage[r.info.storage_path] = PartialFile
                        THEN Returned("UnpicklingError", None, NoModel)
                        ELSE Returned("ok", r.info.version,
                                      storage[r.info.storage_path])
        /\ UNCHANGED <<kind, metadata, current_metadata, same_dict,
                       shared_lists, key_order,
                       json_doc, tables, storage, histories>>

\* delete_model without its last step, the save of the updated metadata.
DeleteModelUnsaved(name, version) ==
    LET r  == _get_model_info(metadata, name, version)
        h1 == dict_setitem(Heap, name,
                  SelectSeq(metadata[name],
                            LAMBDA info : info.version # r.info.version))
        h2 == IF Len(h1.md[name]) = 0 THEN dict_delitem(h1, name) ELSE h1
    IN  IF ~r.found
        THEN /\ result' = Returned("ValueError", None, NoModel)
             /\ UNCHANGED <<kind, metadata, current_metadata, same_dict,
                            shared_lists, key_order, json_doc, tables,
                            storage, histories>>
        ELSE /\ storage' = storage_delete_model(storage, r.info.storage_path)
             /\ metadata' = h2.md
             /\ current_metadata' = h2.cur
             /\ shared_lists' = h2.shared
             /\ key_order' = h2.order
             /\ result' = Returned("ok", None, NoModel)
             /\ deleted' = deleted \cup {name}
             /\ failed_save' = [failed_save EXCEPT ![name] = NoFailure]
             /\ UNCHANGED <<kind, same_dict, json_doc, tables, assigned,
                            generation, saved_model, failures, other, constructed,
                   deployments>>

\* delete_model filtering on its version argument, not on the version of the
\* record it resolved: delete_model(name) removes the file and no record.
DeleteModelByArgument(name, version) ==
    LET r  == _get_model_info(metadata, name, version)
        h1 == dict_setitem(Heap, name,
                  SelectSeq(metadata[name], LAMBDA info : info.version # version))
        h2 == IF Len(h1.md[name]) = 0 THEN dict_delitem(h1, name) ELSE h1
    IN  IF ~r.found
        THEN /\ result' = Returned("ValueError", None, NoModel)
             /\ UNCHANGED <<kind, metadata, current_metadata, same_dict,
                            shared_lists, key_order, json_doc, tables,
                            storage, histories>>
        ELSE /\ storage' = storage_delete_model(storage, r.info.storage_path)
             /\ Persist(h2)
             /\ result' = Returned("ok", None, NoModel)
             /\ deleted' = deleted \cup {name}
             /\ failed_save' = [failed_save EXCEPT ![name] = NoFailure]
             /\ UNCHANGED <<kind, assigned, generation, saved_model, failures, other, constructed,
                   deployments>>

\* delete_model that saves the metadata whether or not it found the record.
DeleteModelSavesAnyway(name, version) ==
    LET r  == _get_model_info(metadata, name, version)
        h1 == dict_setitem(Heap, name,
                  SelectSeq(metadata[name],
                            LAMBDA info : info.version # r.info.version))
        h2 == IF Len(h1.md[name]) = 0 THEN dict_delitem(h1, name) ELSE h1
    IN  IF ~r.found
        THEN /\ Persist(Heap)
             /\ result' = Returned("ValueError", None, NoModel)
             /\ UNCHANGED <<kind, storage, histories>>
        ELSE /\ storage' = storage_delete_model(storage, r.info.storage_path)
             /\ Persist(h2)
             /\ result' = Returned("ok", None, NoModel)
             /\ deleted' = deleted \cup {name}
             /\ failed_save' = [failed_save EXCEPT ![name] = NoFailure]
             /\ UNCHANGED <<kind, assigned, generation, saved_model, failures, other, constructed,
                   deployments>>

\* ModelRegistry.delete_model(name, version)
DeleteModel(name, version) ==
    LET r  == _get_model_info(metadata, name, version)
        h1 == dict_setitem(Heap, name,
                  SelectSeq(metadata[name],
                            LAMBDA info : info.version # r.info.version))
        h2 == IF Len(h1.md[name]) = 0 THEN dict_delitem(h1, name) ELSE h1
    IN  IF ~r.found
        THEN /\ result' = Returned("ValueError",
                                   None, NoModel)
             /\ UNCHANGED <<kind, metadata, current_metadata, same_dict,
                            shared_lists, key_order, json_doc, tables,
                            storage, histories>>
        ELSE /\ storage' = storage_delete_model(storage, r.info.storage_path)
             /\ Persist(h2)
             /\ result' = Returned("ok", None, NoModel)
             /\ deleted' = deleted \cup {name}
             /\ failed_save' = [failed_save EXCEPT ![name] = NoFailure]
             /\ UNCHANGED <<kind, assigned, generation, saved_model, failures, other, constructed,
                   deployments>>

\* delete_model when storage_backend.delete_model raises (os.remove raised:
\* the file is still there).  It is the first call after the record was
\* resolved, and delete_model has no handler: the exception leaves it before
\* the index is touched.  The lookup raises first when there is no record.
DeleteModelStorageFails(name, version) ==
    LET r == _get_model_info(metadata, name, version)
    IN  /\ result' = IF ~r.found THEN Returned("ValueError", None, NoModel)
                     ELSE Returned("OSError", None, NoModel)
        /\ UNCHANGED <<kind, metadata, current_metadata, same_dict,
                       shared_lists, key_order, json_doc, tables, storage,
                       histories>>

\* ModelRegistry.get_latest_version(name)
GetLatestVersion(name) ==
    /\ result' =
          IF ~HasKey(metadata, name)
          THEN Returned("ValueError", None, NoModel)
          ELSE Returned("ok",
                        max_by_version(metadata[name]).version, NoModel)
    /\ UNCHANGED <<kind, metadata, current_metadata, same_dict,
                       shared_lists, key_order,
                   json_doc, tables, storage, histories>>

\* self.metadata_backend.load_metadata(), as ModelRegistry.__init__ calls it:
\* what a registry built now on the same files takes as its index.
load_metadata ==
    IF kind = "local" THEN json_load_metadata(json_doc)
    ELSE sqlite_load_metadata(Database)

\* The registry is discarded and create_registry(kind) builds another on the
\* same files: ModelRegistry.__init__ takes metadata_backend.load_metadata().
\* DatabaseMetadataBackend.load_metadata keeps the dict it returns.  On a
\* registry.json that is not a JSON document json.load raises and there is
\* no registry.
Restart ==
    /\ generation < MaxRestarts
    /\ kind = "local" => json_doc.valid
    /\ generation' = generation + 1
    /\ metadata' = load_metadata
    /\ IF kind = "local"
       THEN UNCHANGED <<current_metadata, same_dict, shared_lists, key_order>>
       ELSE /\ current_metadata' = metadata'
            /\ same_dict' = TRUE
            /\ shared_lists' = DOMAIN metadata'
            /\ key_order' = SelectSeq(NamesInOrder, LAMBDA n : n \in DOMAIN metadata')
    /\ result' = Returned("ok", None, NoModel)
    /\ failed_save' = [n \in Names |-> NoFailure]
    /\ UNCHANGED <<kind, json_doc, tables, storage, assigned, deleted,
                   saved_model, failures, other, constructed,
                   deployments>>

\* The registry that resumes reads the index again from the metadata store.
SwitchReloads ==
    /\ metadata' = load_metadata
    /\ current_metadata' = IF kind = "local" THEN other.heap.cur ELSE metadata'
    /\ same_dict' = (kind = "database")
    /\ shared_lists' = IF kind = "local" THEN {} ELSE DOMAIN metadata'
    /\ key_order' = IF kind = "local" THEN <<>>
                    ELSE SelectSeq(NamesInOrder, LAMBDA n : n \in DOMAIN metadata')
    /\ other' = [heap |-> Heap, registry |-> 3 - other.registry]
    /\ UNCHANGED <<kind, json_doc, tables, storage, result, assigned, deleted,
                   generation, saved_model, failed_save, failures,
                   constructed,
                   deployments>>

\* Two processes, each with a registry that create_registry built on the same
\* directory: the one that was running stops between two calls and the other
\* goes on.  Each has its own ModelRegistry.metadata and its own
\* DatabaseMetadataBackend._current_metadata; nothing reads the store again.
Switch ==
    /\ metadata' = other.heap.md
    /\ current_metadata' = other.heap.cur
    /\ same_dict' = other.heap.same
    /\ shared_lists' = other.heap.shared
    /\ key_order' = other.heap.order
    /\ other' = [heap |-> Heap, registry |-> 3 - other.registry]
    /\ UNCHANGED <<kind, json_doc, tables, storage, result, assigned, deleted,
                   generation, saved_model, failed_save, failures,
                   constructed,
                   deployments>>

\* The s3 branch building its storage backend before it raises.
backends_of_s3_first(storage_type) ==
    IF storage_type = "s3" THEN {"S3StorageBackend"}
    ELSE IF storage_type = "local"
         THEN {"LocalStorageBackend", "JSONMetadataBackend"}
         ELSE IF storage_type = "database"
              THEN {"LocalStorageBackend", "DatabaseMetadataBackend"}
              ELSE {}

\* The backends create_registry constructs before ModelRegistry: those of
\* the branch of storage_type, and none in the branches that raise.
backends_of(storage_type) ==
    IF storage_type = "local"
    THEN {"LocalStorageBackend", "JSONMetadataBackend"}
    ELSE IF storage_type = "database"
         THEN {"LocalStorageBackend", "DatabaseMetadataBackend"}
         ELSE {}

\* The heap of a registry that create_registry(k) built on empty stores.
FreshHeap(k) == [md |-> EmptyDict, cur |-> EmptyDict,
                 same |-> (k = "database"), shared |-> {}, order |-> <<>>]

\* create_registry(kind) on an empty directory.
Init ==
    /\ kind \in {"local", "database"}
    /\ metadata = EmptyDict
    /\ current_metadata = EmptyDict
    /\ same_dict = (kind = "database")
    /\ shared_lists = {}
    /\ key_order = <<>>
    /\ json_doc = NoFile
    /\ mr_models = {}
    /\ mr_model_versions = {}
    /\ mr_model_tags = {}
    /\ storage = <<>>
    /\ result = Returned("ok", None, NoModel)
    /\ assigned = [n \in Names |-> <<>>]
    /\ deleted = {}
    /\ generation = 0
    /\ saved_model = <<>>
    /\ failed_save = [n \in Names |-> NoFailure]
    /\ failures = 0
    /\ other = [heap |-> FreshHeap(kind), registry |-> 2]
    /\ constructed = backends_of(kind) \cup {"ModelRegistry"}
    /\ active_deployments = EmptyDict
    /\ loaded_models = EmptyDict

\* The version arguments a caller passes: None, or the string of a number.
VersionArgs(max) == {None} \cup {str(v) : v \in 1..max}

Next ==
    \/ \E model \in Artifacts, name \in Names : SaveModel(model, name, NoTags)
    \/ \E name \in Names, version \in VersionArgs(MaxSaves + 1) :
           DeleteModel(name, version)
    \/ Restart

Spec == Init /\ [][Next]_vars

----------------------------------------------------------------------------
(* A registry built on the registry.json and the files that an earlier     *)
(* process left: the index holds versions of more than one digit.  The     *)
(* lists are the ones save_model and delete_model produce: versions in     *)
(* increasing order, each with its file.  Of the earlier saves, assigned   *)
(* keeps those whose version is still in the index.                        *)

\* The increasing sequences of at most len numbers of 1..max.
RECURSIVE IncreasingSeqs(_, _)
IncreasingSeqs(max, len) ==
    IF len = 0 THEN {<<>>}
    ELSE LET shorter == IncreasingSeqs(max, len - 1)
         IN  shorter \cup
             {Append(q, v) : <<q, v>> \in
                 {<<q, v>> \in shorter \X (1..max) :
                     /\ Len(q) = len - 1
                     /\ \A i \in 1..Len(q) : q[i] < v}}

\* The index with the given versions of name, and nothing else.
IndexOf(name, versions, model) ==
    IF versions = <<>> THEN EmptyDict
    ELSE (name :> [i \in 1..Len(versions) |->
                      model_info(name, str(versions[i]), NoTags, getsize(model))])

InitQuery ==
    \E versions \in IncreasingSeqs(MaxQueryVersion, MaxQueryLen),
       model \in Artifacts :
        /\ kind = "local"
        /\ metadata = IndexOf("a", versions, model)
        /\ current_metadata = EmptyDict
        /\ same_dict = FALSE
        /\ shared_lists = {}
        /\ key_order = <<>>
        /\ json_doc = json_dump(metadata)
        /\ mr_models = {}
        /\ mr_model_versions = {}
        /\ mr_model_tags = {}
        /\ storage = [p \in {model_path("a", str(versions[i])) : i \in 1..Len(versions)}
                         |-> model]
        /\ result = Returned("ok", None, NoModel)
        /\ assigned = [n \in Names |->
                          IF n = "a" THEN [i \in 1..Len(versions) |-> str(versions[i])]
                          ELSE <<>>]
        /\ deleted = {}
        /\ generation = 0
        /\ saved_model = [k \in {<<"a", str(versions[i])>> : i \in 1..Len(versions)}
                             |-> model]
        /\ failed_save = [n \in Names |-> NoFailure]
        /\ failures = 0
        /\ other = [heap |-> FreshHeap(kind), registry |-> 2]
    /\ constructed = backends_of(kind) \cup {"ModelRegistry"}
    /\ active_deployments = EmptyDict
    /\ loaded_models = EmptyDict

NextQuery ==
    \/ \E name \in Names, version \in VersionArgs(MaxQueryVersion + 1) :
           LoadModel(name, version)
    \/ \E name \in Names : GetLatestVersion(name)
    \/ \E model \in Artifacts, name \in Names : SaveModel(model, name, NoTags)

SpecQuery == InitQuery /\ [][NextQuery]_vars

----------------------------------------------------------------------------
(* One registry that saves, deletes and loads.                             *)

NextRoundTrip ==
    \/ \E model \in Artifacts, name \in Names : SaveModel(model, name, NoTags)
    \/ \E name \in Names, version \in VersionArgs(MaxSaves + 1) :
           DeleteModel(name, version)
    \/ \E name \in Names, version \in VersionArgs(MaxSaves + 1) :
           LoadModel(name, version)

SpecRoundTrip == Init /\ [][NextRoundTrip]_vars

----------------------------------------------------------------------------
(* One registry that saves, deletes, loads, asks for the latest version    *)
(* and is rebuilt.                                                         *)

NextLookup ==
    \/ \E name \in Names : SaveModel("m1", name, NoTags)
    \/ \E name \in Names, version \in VersionArgs(MaxSaves) :
           DeleteModel(name, version)
    \/ \E name \in Names, version \in VersionArgs(MaxSaves) :
           LoadModel(name, version)
    \/ \E name \in Names : GetLatestVersion(name)
    \/ Restart

SpecLookup == Init /\ [][NextLookup]_vars

----------------------------------------------------------------------------
(* A registry whose storage backend can raise.                             *)

NextStorageFail ==
    \/ \E name \in Names : SaveModel("m1", name, NoTags)
    \/ \E name \in Names : SaveModelStorageFails("m1", name)
    \/ \E name \in Names : DeleteModel(name, None)

SpecStorageFail == Init /\ [][NextStorageFail]_vars

----------------------------------------------------------------------------
(* A registry whose metadata backend can raise.                            *)

NextMetadataFail ==
    \/ \E name \in Names : SaveModel("m1", name, NoTags)
    \/ \E name \in Names : SaveModelMetadataFails("m1", name, NoTags)
    \/ \E name \in Names : DeleteModel(name, None)

SpecMetadataFail == Init /\ [][NextMetadataFail]_vars

----------------------------------------------------------------------------
(* A registry of which either backend can raise: a save_model call ends    *)
(* after any of its steps.                                                 *)

NextSaveSteps ==
    \/ \E name \in Names : SaveModel("m1", name, NoTags)
    \/ SaveModelStorageFails("m1", "a")
    \/ \E name \in Names : SaveModelMetadataFails("m1", name, NoTags)
    \/ DeleteModel("a", None)

SpecSaveSteps == Init /\ [][NextSaveSteps]_vars

----------------------------------------------------------------------------
(* A registry whose storage backend can raise when it is to delete.        *)

NextDeleteSteps ==
    \/ \E model \in Artifacts, name \in Names : SaveModel(model, name, NoTags)
    \/ \E name \in Names, version \in VersionArgs(MaxSaves) :
           DeleteModel(name, version)
    \/ \E name \in Names, version \in VersionArgs(MaxSaves) :
           DeleteModelStorageFails(name, version)

SpecDeleteSteps == Init /\ [][NextDeleteSteps]_vars

----------------------------------------------------------------------------
(* One registry, every call of which can raise: saves in the storage       *)
(* backend and in the metadata store, deletes in the storage backend.      *)

NextIndex ==
    \/ \E name \in Names : SaveModel("m1", name, NoTags)
    \/ SaveModelStorageFails("m1", "a")
    \/ \E name \in Names : SaveModelMetadataFails("m1", name, NoTags)
    \/ \E version \in VersionArgs(2) : DeleteModel("a", version)
    \/ DeleteModelStorageFails("a", None)

SpecIndex == Init /\ [][NextIndex]_vars

----------------------------------------------------------------------------
(* Two registries on the same stores, their calls interleaved.             *)

NextTwo ==
    \/ \E model \in Artifacts, name \in Names : SaveModel(model, name, NoTags)
    \/ Switch

SpecTwo == Init /\ [][NextTwo]_vars

----------------------------------------------------------------------------
(* A registry that saves models with tags, and the registry built after it. *)

NextTags ==
    \/ \E name \in Names, tags \in TagDicts : SaveModel("m1", name, tags)
    \/ Restart

SpecTags == Init /\ [][NextTags]_vars

----------------------------------------------------------------------------
(* SQLiteMetadataBackend called directly, on an empty database.            *)

\* The model_info dicts a caller passes to save_model_metadata.
Infos ==
    {model_info(name, str(v), tags, getsize(model)) :
        name \in Names, v \in 1..2, tags \in TagDicts, model \in Artifacts}

\* SQLiteMetadataBackend.save_model_metadata(info)
SqlSaveModelMetadata(info) ==
    LET db == save_model_metadata(Database, info)
    IN  /\ lastrowid(Database) <= MaxRowId
        /\ mr_models' = db.models
        /\ mr_model_versions' = db.versions
        /\ mr_model_tags' = db.tags
        /\ result' = Returned("ok", None, NoModel)
        /\ UNCHANGED <<kind, metadata, current_metadata, same_dict, shared_lists,
                       key_order, json_doc, storage, histories>>

\* SQLiteMetadataBackend.delete_model_version(name, version)
SqlDeleteModelVersion(name, version) ==
    LET db == delete_model_version(Database, name, version)
    IN  /\ mr_models' = db.models
        /\ mr_model_versions' = db.versions
        /\ mr_model_tags' = db.tags
        /\ result' = Returned("ok", None, NoModel)
        /\ UNCHANGED <<kind, metadata, current_metadata, same_dict, shared_lists,
                       key_order, json_doc, storage, histories>>

\* SQLiteMetadataBackend.save_model_metadata(info) when a statement of it, or
\* the commit, raises: get_connection rolls back and raises again.
SqlSaveModelMetadataFails(info) ==
    /\ lastrowid(Database) <= MaxRowId
    /\ \E working \in statements_done(Database, info) :
           LET db == rollback(Database, working)
           IN  /\ mr_models' = db.models
               /\ mr_model_versions' = db.versions
               /\ mr_model_tags' = db.tags
    /\ result' = Returned("StoreError", None, NoModel)
    /\ UNCHANGED <<kind, metadata, current_metadata, same_dict, shared_lists,
                   key_order, json_doc, storage, histories>>

InitSqlite == Init /\ kind = "database"

NextSqlite ==
    \/ \E info \in Infos : SqlSaveModelMetadata(info)
    \/ \E name \in Names, v \in 1..2 : SqlDeleteModelVersion(name, str(v))

SpecSqlite == InitSqlite /\ [][NextSqlite]_vars

----------------------------------------------------------------------------
(* SQLiteMetadataBackend of which a save_model_metadata call can raise.    *)

NextTransaction ==
    \/ \E info \in Infos : SqlSaveModelMetadata(info)
    \/ \E info \in Infos : SqlSaveModelMetadataFails(info)
    \/ \E name \in Names, v \in 1..2 : SqlDeleteModelVersion(name, str(v))

SpecTransaction == InitSqlite /\ [][NextTransaction]_vars

----------------------------------------------------------------------------
(* SQLiteMetadataBackend searched by tag: versions "2" and "10", tags of   *)
(* two keys and two values.                                                *)

\* The tags of the records: a number, a string, two keys.
FindTagDicts ==
    {NoTags, ("k" :> py_int(5)), ("k" :> py_str(<<6>>)),
     ("j" :> py_str(<<5>>)) @@ ("k" :> py_str(<<6>>))}

FindInfos ==
    {model_info(name, str(v), tags, getsize("m1")) :
        name \in Names, v \in {2, 10}, tags \in FindTagDicts}

\* The tag_value arguments of find_models_by_tag.
FindValues == {NoValue, py_str(<<5>>), py_str(<<6>>)}

\* SQLiteMetadataBackend.find_models_by_tag(tag_key, tag_value)
FindModelsByTag(tag_key, tag_value) ==
    /\ result' = Found(find_models_by_tag(Database, tag_key, tag_value))
    /\ UNCHANGED <<kind, metadata, current_metadata, same_dict, shared_lists,
                   key_order, json_doc, tables, storage, histories>>

NextFind ==
    \/ \E info \in FindInfos : SqlSaveModelMetadata(info)
    \/ \E name \in Names, v \in {2, 10} : SqlDeleteModelVersion(name, str(v))
    \/ \E tag_key \in {"j", "k"}, tag_value \in FindValues :
           FindModelsByTag(tag_key, tag_value)

SpecFind == InitSqlite /\ [][NextFind]_vars

----------------------------------------------------------------------------
(* JSONMetadataBackend called directly, with no registry.json at first:    *)
(* metadata is the dict the caller passed to save_metadata last.           *)

\* What load_metadata returned: the index.
Loaded(index) == [status |-> "ok", index |-> index]

\* The indexes a caller passes: up to two versions of each name, with tags.
JsonIndexes ==
    {[n \in {m \in Names : versions[m] # <<>>} |->
         [i \in 1..Len(versions[n]) |->
             model_info(n, str(versions[n][i]), tags, getsize("m1"))]] :
        versions \in [Names -> IncreasingSeqs(3, 2)], tags \in TagDicts}

\* JSONMetadataBackend.save_metadata(index)
JsonSaveMetadata(index) ==
    /\ json_doc' = json_dump(index)
    /\ metadata' = index
    /\ result' = Returned("ok", None, NoModel)
    /\ UNCHANGED <<kind, current_metadata, same_dict, shared_lists, key_order,
                   tables, storage, histories>>

\* JSONMetadataBackend.load_metadata()
JsonLoadMetadata ==
    /\ result' = Loaded(json_load_metadata(json_doc))
    /\ UNCHANGED <<kind, metadata, current_metadata, same_dict, shared_lists,
                   key_order, json_doc, tables, storage, histories>>

InitJson == Init /\ kind = "local"

NextJson ==
    \/ \E index \in JsonIndexes : JsonSaveMetadata(index)
    \/ JsonLoadMetadata

SpecJson == InitJson /\ [][NextJson]_vars

----------------------------------------------------------------------------
(* create_registry called with any selector, in a process that has no      *)
(* registry yet, on a directory that holds nothing.                        *)

\* The storage_type arguments: the three the code names, and one it does not.
Selectors == {"local", "database", "s3", "redis"}

\* create_registry(storage_type).  "local" and "database" construct the two
\* backends and ModelRegistry, whose __init__ takes load_metadata() of the
\* metadata backend; "s3" raises NotImplementedError and any other selector
\* ValueError, in either case before a constructor is called.  The registry
\* the caller had stays the caller's registry when the call raises.
CreateRegistry(storage_type) ==
    /\ generation < MaxCreates
    /\ generation' = generation + 1
    /\ constructed' = constructed \cup backends_of(storage_type) \cup
                         (IF storage_type \in {"local", "database"}
                          THEN {"ModelRegistry"} ELSE {})
    /\ IF storage_type = "local"
       THEN /\ json_doc.valid
            /\ kind' = "local"
            /\ metadata' = json_load_metadata(json_doc)
            /\ current_metadata' = EmptyDict
            /\ same_dict' = FALSE
            /\ shared_lists' = {}
            /\ key_order' = <<>>
            /\ result' = Returned("ok", None, NoModel)
            /\ failed_save' = [n \in Names |-> NoFailure]
       ELSE IF storage_type = "database"
       THEN /\ kind' = "database"
            /\ metadata' = sqlite_load_metadata(Database)
            /\ current_metadata' = metadata'
            /\ same_dict' = TRUE
            /\ shared_lists' = DOMAIN metadata'
            /\ key_order' = SelectSeq(NamesInOrder, LAMBDA n : n \in DOMAIN metadata')
            /\ result' = Returned("ok", None, NoModel)
            /\ failed_save' = [n \in Names |-> NoFailure]
       ELSE /\ result' = Returned(IF storage_type = "s3" THEN "NotImplementedError"
                                  ELSE "ValueError", None, NoModel)
            /\ UNCHANGED <<kind, metadata, current_metadata, same_dict,
                           shared_lists, key_order, failed_save>>
    /\ UNCHANGED <<json_doc, tables, storage, assigned, deleted, saved_model,
                   failures, other, deployments>>

\* No create_registry call was made yet.
InitFactory ==
    /\ kind = "none"
    /\ metadata = EmptyDict
    /\ current_metadata = EmptyDict
    /\ same_dict = FALSE
    /\ shared_lists = {}
    /\ key_order = <<>>
    /\ json_doc = NoFile
    /\ mr_models = {}
    /\ mr_model_versions = {}
    /\ mr_model_tags = {}
    /\ storage = <<>>
    /\ result = Returned("ok", None, NoModel)
    /\ assigned = [n \in Names |-> <<>>]
    /\ deleted = {}
    /\ generation = 0
    /\ saved_model = <<>>
    /\ failed_save = [n \in Names |-> NoFailure]
    /\ failures = 0
    /\ other = [heap |-> FreshHeap("local"), registry |-> 2]
    /\ constructed = {}
    /\ active_deployments = EmptyDict
    /\ loaded_models = EmptyDict

NextFactory ==
    \/ \E storage_type \in Selectors : CreateRegistry(storage_type)
    \/ \E model \in Artifacts, name \in Names :
           kind # "none" /\ SaveModel(model, name, NoTags)

SpecFactory == InitFactory /\ [][NextFactory]_vars

----------------------------------------------------------------------------
(* api/main.py: the deployment layer.  The process holds one registry,     *)
(* which get_registry() makes with create_registry("database"), and the    *)
(* two dicts active_deployments and loaded_models.  A handler has no await *)
(* in its body, so the event loop runs it from its first statement to its  *)
(* last before it starts another.                                          *)

\* get_deployment_key: f"{model_name}:v{version}"
get_deployment_key(model_name, version) ==
    [model_name |-> model_name, version |-> version]

\* What a handler answered: the status of its dict, or the status code of
\* its HTTPException; the deployment key; the model that made the prediction.
Response(status, deployment_key, model) ==
    [status |-> status, deployment_key |-> deployment_key, model |-> model]

\* version = request.version or get_model_latest_version(request.model_name):
\* found = FALSE is the HTTPException 404 of get_model_latest_version.
requested_version(model_name, version) ==
    IF version # None THEN [found |-> TRUE, version |-> version]
    ELSE IF HasKey(metadata, model_name)
         THEN [found |-> TRUE, version |-> max_by_version(metadata[model_name]).version]
         ELSE [found |-> FALSE, version |-> None]

\* A memory that holds one model: deploying evicts what was deployed.
setitem_evicting(d, key, value) == (key :> value)

\* d[key] = value for a dict d.
setitem(d, key, value) ==
    [k \in DOMAIN d \cup {key} |-> IF k = key THEN value ELSE d[k]]

\* del d[key]
delitem(d, key) == [k \in DOMAIN d \ {key} |-> d[k]]

\* A handler that answers without a change of the two dicts.
Answer(response) ==
    /\ result' = response
    /\ UNCHANGED deployments

\* POST /deployments/deploy
DeployModel(model_name, version) ==
    LET v    == requested_version(model_name, version)
        key  == get_deployment_key(model_name, v.version)
        r    == _get_model_info(metadata, model_name, v.version)
        path == r.info.storage_path
    IN  /\ IF ~v.found \/ ~r.found
           THEN Answer(Response("404", key, NoModel))
           ELSE IF key \in DOMAIN active_deployments
           THEN Answer(Response("already_deployed", key, NoModel))
           ELSE IF ~model_exists(storage, path) \/ storage[path] = PartialFile
           THEN Answer(Response("500", key, NoModel))
           ELSE /\ loaded_models' = setitem(loaded_models, key, storage[path])
                /\ active_deployments' =
                      setitem(active_deployments, key,
                              [model_name |-> model_name, version |-> v.version,
                               model_info |-> r.info, request_count |-> 0])
                /\ result' = Response("deployed", key, NoModel)
        /\ UNCHANGED <<kind, metadata, current_metadata, same_dict, shared_lists,
                       key_order, json_doc, tables, storage, assigned, deleted,
                       generation, saved_model, failed_save, failures, other,
                       constructed>>

\* POST /deployments/undeploy
UndeployModel(model_name, version) ==
    LET v   == requested_version(model_name, version)
        key == get_deployment_key(model_name, v.version)
    IN  /\ IF ~v.found \/ key \notin DOMAIN active_deployments
           THEN Answer(Response("404", key, NoModel))
           ELSE /\ loaded_models' = delitem(loaded_models, key)
                /\ active_deployments' = delitem(active_deployments, key)
                /\ result' = Response("undeployed", key, NoModel)
        /\ UNCHANGED <<kind, metadata, current_metadata, same_dict, shared_lists,
                       key_order, json_doc, tables, storage, assigned, deleted,
                       generation, saved_model, failed_save, failures, other,
                       constructed>>

\* The inputs of a prediction: one the model takes, one on which it raises.
Inputs == {"input", "bad input"}

\* POST /predict
UniversalPredict(model_name, version, input) ==
    LET v   == requested_version(model_name, version)
        key == get_deployment_key(model_name, v.version)
    IN  /\ IF ~v.found \/ key \notin DOMAIN active_deployments
           THEN Answer(Response("404", key, NoModel))
           ELSE IF key \notin DOMAIN loaded_models
           THEN Answer(Response("500", key, NoModel))
           ELSE IF input = "bad input"
           THEN Answer(Response("400", key, NoModel))
           ELSE /\ active_deployments[key].request_count < MaxRequests
                /\ active_deployments' =
                      [active_deployments EXCEPT ![key].request_count = @ + 1]
                /\ result' = Response("ok", key, loaded_models[key])
                /\ UNCHANGED loaded_models
        /\ UNCHANGED <<kind, metadata, current_metadata, same_dict, shared_lists,
                       key_order, json_doc, tables, storage, assigned, deleted,
                       generation, saved_model, failed_save, failures, other,
                       constructed>>

InitDeploy == Init /\ kind = "database"

\* The requests, and the saves and deletes that the process makes of "a" on
\* the registry of get_registry().
NextDeploy ==
    \/ \E model \in Artifacts : SaveModel(model, "a", NoTags)
    \/ \E version \in VersionArgs(MaxSaves) : DeleteModel("a", version)
    \/ \E name \in Names, version \in VersionArgs(MaxSaves) :
           DeployModel(name, version)
    \/ \E name \in Names, version \in VersionArgs(MaxSaves) :
           UndeployModel(name, version)
    \/ \E name \in Names, version \in VersionArgs(MaxSaves), input \in Inputs :
           UniversalPredict(name, version, input)

SpecDeploy == InitDeploy /\ [][NextDeploy]_vars

\* deploy_model that registers the deployment before it loads the model.
DeployModelMarksFirst(model_name, version) ==
    LET v   == requested_version(model_name, version)
        key == get_deployment_key(model_name, v.version)
        r   == _get_model_info(metadata, model_name, v.version)
    IN  /\ v.found /\ r.found
        /\ key \notin DOMAIN active_deployments
        /\ active_deployments' =
              setitem(active_deployments, key,
                      [model_name |-> model_name, version |-> v.version,
                       model_info |-> r.info, request_count |-> 0])
        /\ result' = Response("500", key, NoModel)
        /\ UNCHANGED <<kind, metadata, current_metadata, same_dict, shared_lists,
                       key_order, json_doc, tables, storage, assigned, deleted,
                       generation, saved_model, failed_save, failures, other,
                       constructed, loaded_models>>

\* POST /deployments/deploy when reg.load_model raises (the file cannot be
\* opened or unpickled): the handler of the try around load_model and
\* loaded_models[deployment_key] = model answers 500, and neither dict has
\* been assigned to.  The requests that end with 404 or already_deployed end
\* before load_model is called, as in DeployModel.
DeployModelLoadFails(model_name, version) ==
    LET v   == requested_version(model_name, version)
        key == get_deployment_key(model_name, v.version)
        r   == _get_model_info(metadata, model_name, v.version)
    IN  /\ v.found /\ r.found
        /\ key \notin DOMAIN active_deployments
        /\ Answer(Response("500", key, NoModel))
        /\ UNCHANGED <<kind, metadata, current_metadata, same_dict, shared_lists,
                       key_order, json_doc, tables, storage, assigned, deleted,
                       generation, saved_model, failed_save, failures, other,
                       constructed>>

\* The requests, those that fail included, and saves and deletes of "a".
\* get_memory_usage, which deploy_model calls before load_model and again
\* after it, reads the memory of the process itself and returns both times.
NextBookkeeping ==
    \/ SaveModel("m1", "a", NoTags)
    \/ \E version \in VersionArgs(MaxSaves) : DeleteModel("a", version)
    \/ \E name \in Names, version \in VersionArgs(MaxSaves) :
           DeployModel(name, version)
    \/ \E name \in Names, version \in VersionArgs(MaxSaves) :
           DeployModelLoadFails(name, version)
    \/ \E name \in Names, version \in VersionArgs(MaxSaves) :
           UndeployModel(name, version)
    \/ \E name \in Names, version \in VersionArgs(MaxSaves), input \in Inputs :
           UniversalPredict(name, version, input)

SpecBookkeeping == InitDeploy /\ [][NextBookkeeping]_vars

----------------------------------------------------------------------------
(* Properties                                                              *)

\* The version strings of the records of name in the index md.
VersionsIn(md, name) ==
    IF HasKey(md, name) THEN {md[name][i].version : i \in 1..Len(md[name])} ELSE {}

\* The numbers of those versions.
VersionNumbers(md, name) == {int(v) : v \in VersionsIn(md, name)}

\* A save_model(_, name) call has just returned.
Saved(name) == assigned'[name] # assigned[name]

\* The last element of a non-empty sequence.
Last(q) == q[Len(q)]

\* C1: with the database metadata store, after any sequence of save_model
\* calls by the first registry (no delete), a registry constructed on the same
\* database lists the same names with the same versions in the same order as
\* the first registry's index.
C1_DatabaseRestartKeepsIndex ==
    (kind = "database" /\ generation = 0 /\ deleted = {})
        => load_metadata = metadata

\* C2: with the JSON metadata store, after any sequence of save_model and
\* delete_model calls, a registry constructed on the same file lists exactly
\* the index of the registry that made the calls.
C2_JsonRestartKeepsIndex ==
    kind = "local" => load_metadata = metadata

\* A second registry took over an index that saves and a delete had shaped.
C2_Witness ==
    /\ kind = "local"
    /\ generation >= 1
    /\ deleted # {}
    /\ DOMAIN metadata # {}

\* C3: with the database metadata store, every save_model call that assigns a
\* version inserts exactly one row of that name and version into
\* mr_model_versions.
C3_SaveInsertsOneRow ==
    [][\A n \in Names :
          (kind = "database" /\ Saved(n))
              => \E row \in mr_model_versions' :
                    /\ row.name = n
                    /\ row.version = Last(assigned'[n])
                    /\ row \notin mr_model_versions
                    /\ mr_model_versions' = mr_model_versions \cup {row}
      ]_vars

\* C4: when delete_model has removed a version from the index, the metadata
\* store no longer holds it: a registry constructed afterwards does not list it.
C4_DeleteIsPersisted ==
    [][\A n \in Names, v \in VersionArgs(MaxSaves) \ {None} :
          ( /\ v \in VersionsIn(metadata, n)
            /\ v \notin VersionsIn(metadata', n)
            /\ generation' = generation )
              => v \notin VersionsIn(load_metadata', n)
      ]_vars

\* C5: save_model(_, name) assigns and returns the string of (the numeric
\* maximum of the versions of name in the index) + 1, or "1" when the index
\* has no version of name, and the index then holds a record of that version.
C5_SaveAssignsMaxPlusOne ==
    [][\A n \in Names :
          Saved(n) =>
              LET v == Last(assigned'[n])
                  old == VersionNumbers(metadata, n)
              IN  /\ result' = Returned("ok", v, NoModel)
                  /\ v \in VersionsIn(metadata', n)
                  /\ v = str(int(v))
                  /\ IF old = {} THEN int(v) = 1
                     ELSE /\ int(v) - 1 \in old
                          /\ \A k \in old : k < int(v)
      ]_vars

\* A save on an index holding "2" and "10" returned "11".
C5_Witness ==
    /\ VersionsIn(metadata, "a") = {<<2>>, <<1, 0>>, <<1, 1>>}
    /\ assigned["a"] = <<<<2>>, <<1, 0>>, <<1, 1>>>>
    /\ result = Returned("ok", <<1, 1>>, NoModel)

\* C6: in one registry, as long as no version of a name was deleted, the
\* versions save_model assigned to that name are "1", "2", "3", ... in this
\* order, whatever was saved and deleted under other names.
C6_ConsecutiveVersions ==
    \A n \in Names :
        (generation = 0 /\ n \notin deleted)
            => assigned[n] = [i \in 1..Len(assigned[n]) |-> str(i)]

\* Two saves of "a" around a save and a delete of "b".
C6_Witness ==
    /\ generation = 0
    /\ "a" \notin deleted
    /\ "b" \in deleted
    /\ Len(assigned["a"]) >= 2
    /\ Len(assigned["b"]) >= 1

\* C7: no version number of a name is assigned by two save_model calls,
\* whatever was deleted in between.
C7_NoVersionReuse ==
    \A n \in Names :
        \A i, j \in 1..Len(assigned[n]) :
            i # j => assigned[n][i] # assigned[n][j]

\* C8: every record of the index has its file in the storage backend, also
\* in a registry constructed on stores that saw saves and deletes.
C8_NoOrphanMetadata ==
    \A n \in DOMAIN metadata :
        \A i \in 1..Len(metadata[n]) :
            model_exists(storage, metadata[n][i].storage_path)

\* What load_model(n, v) is to return on the index and files of this state.
LoadResolves(n, v) ==
    IF ~HasKey(metadata, n) THEN result' = Returned("ValueError", None, NoModel)
    ELSE IF v # None
         THEN IF v \in VersionsIn(metadata, n)
              THEN \E i \in 1..Len(metadata[n]) :
                      /\ metadata[n][i].version = v
                      /\ result' = Returned("ok", v, storage[metadata[n][i].storage_path])
              ELSE result' = Returned("ValueError", None, NoModel)
         ELSE \E i \in 1..Len(metadata[n]) :
                 /\ \A j \in 1..Len(metadata[n]) :
                        int(metadata[n][j].version) <= int(metadata[n][i].version)
                 /\ result' = Returned("ok", metadata[n][i].version,
                                       storage[metadata[n][i].storage_path])

\* C9: load_model(name, version) loads the record of name with exactly that
\* version, load_model(name) the record of the numerically greatest version;
\* it raises the not-found error when name is not in the index or the given
\* version is not among the records of name.
C9_LoadResolvesVersion ==
    [][\A n \in Names, v \in VersionArgs(MaxQueryVersion + 1) :
          LoadModel(n, v) => LoadResolves(n, v)
      ]_vars

\* A load that took "10" from an index holding "2" and "10".
C9_Witness ==
    /\ {<<2>>, <<1, 0>>} \subseteq VersionsIn(metadata, "a")
    /\ result.status = "ok"
    /\ result.ret_version = <<1, 0>>
    /\ result.ret_model \in Artifacts

\* C10: get_latest_version(name) returns the version of name that is greatest
\* as a number ("10" when "2" and "10" are there), and raises the not-found
\* error when name is not in the index.
C10_LatestIsNumericMax ==
    [][\A n \in Names :
          GetLatestVersion(n) =>
              IF ~HasKey(metadata, n)
              THEN result' = Returned("ValueError", None, NoModel)
              ELSE /\ result'.status = "ok"
                   /\ result'.ret_model = NoModel
                   /\ result'.ret_version \in VersionsIn(metadata, n)
                   /\ \A w \in VersionsIn(metadata, n) :
                          int(w) <= int(result'.ret_version)
      ]_vars

\* get_latest_version answered "10" on an index holding exactly "2" and "10".
C10_Witness ==
    /\ HasKey(metadata, "a")
    /\ Len(metadata["a"]) = 2
    /\ VersionsIn(metadata, "a") = {<<2>>, <<1, 0>>}
    /\ result = Returned("ok", <<1, 0>>, NoModel)

\* The version load_model(n, v) or delete_model(n, v) names: v, or for v = None the
\* numerically greatest version of n in the index.
Target(n, v) ==
    IF v # None THEN v
    ELSE CHOOSE w \in VersionsIn(metadata, n) :
             \A u \in VersionsIn(metadata, n) : int(u) <= int(w)

\* The index holds the record that load_model(n, v) or delete_model(n, v)
\* names: a record of n, and of version v when v is given.
IndexHolds(n, v) ==
    /\ HasKey(metadata, n)
    /\ v # None => v \in VersionsIn(metadata, n)

\* C11: after delete_model(name, version) has returned, list_models() holds no
\* record of name with that version (the greatest one when no version was
\* given), and does not hold the key name when that was the last version of
\* name.
C11_DeleteRemovesVersion ==
    [][\A n \in Names, v \in VersionArgs(MaxSaves + 1) :
          (IndexHolds(n, v) /\ DeleteModel(n, v)) =>
              /\ result'.status = "ok"
              /\ Target(n, v) \notin VersionsIn(metadata', n)
              /\ VersionsIn(metadata, n) = {Target(n, v)} => ~HasKey(metadata', n)
              /\ HasKey(metadata', n) => Len(metadata'[n]) > 0
      ]_vars

\* The only version of "a" was deleted, and version "1" of "b" while "2" stays.
C11_Witness ==
    /\ {"a", "b"} \subseteq deleted
    /\ assigned["a"] # <<>>
    /\ ~HasKey(metadata, "a")
    /\ VersionsIn(metadata, "b") = {<<2>>}

\* The list lst without its k-th element.
Without(lst, k) ==
    [i \in 1..(Len(lst) - 1) |-> IF i < k THEN lst[i] ELSE lst[i + 1]]

\* The records of n in the index have pairwise different versions, as the
\* records of versions 1..n that one registry saved have.
DistinctVersions(n) ==
    \A i, j \in 1..Len(metadata[n]) :
        i # j => metadata[n][i].version # metadata[n][j].version

\* C12: delete_model(name, k) removes exactly one record: the list of name is
\* afterwards the list before without the record of version k, the other
\* records unchanged and in their order (the key is gone when none is left),
\* and the lists of the other names are unchanged.
C12_DeleteRemovesOneRecord ==
    [][\A n \in Names, v \in VersionArgs(MaxSaves + 1) :
          (IndexHolds(n, v) /\ DistinctVersions(n) /\ DeleteModel(n, v)) =>
              /\ \E k \in 1..Len(metadata[n]) :
                     /\ metadata[n][k].version = Target(n, v)
                     /\ IF Len(metadata[n]) = 1
                        THEN ~HasKey(metadata', n)
                        ELSE /\ HasKey(metadata', n)
                             /\ metadata'[n] = Without(metadata[n], k)
              /\ \A m \in Names \ {n} :
                     /\ HasKey(metadata', m) <=> HasKey(metadata, m)
                     /\ HasKey(metadata, m) => metadata'[m] = metadata[m]
      ]_vars

\* Versions "1", "2", "3" of "a" were saved and "2" deleted: "1", "3" are left.
C12_Witness ==
    /\ assigned["a"] = <<<<1>>, <<2>>, <<3>>>>
    /\ deleted = {"a"}
    /\ HasKey(metadata, "a")
    /\ Len(metadata["a"]) = 2
    /\ metadata["a"][1].version = <<1>>
    /\ metadata["a"][2].version = <<3>>

\* C13: after any sequence of save_model and delete_model calls of a registry,
\* load_model(name, v) for a version v of the index returns the model given to
\* the save_model that assigned v to name (the latest such save when the
\* version was deleted and assigned again), and load_model(name) the model of
\* the numerically greatest version of name.
C13_LoadReturnsSavedModel ==
    [][\A n \in Names, v \in VersionArgs(MaxSaves + 1) :
          (IndexHolds(n, v) /\ LoadModel(n, v)) =>
              result' = Returned("ok", Target(n, v), saved_model[<<n, Target(n, v)>>])
      ]_vars

\* Version "1" of "a" was saved with m1, "1" of "b" with m2, "a" deleted and
\* saved again, and a load returned a model.
C13_Witness ==
    /\ assigned["a"] = <<<<1>>, <<1>>>>
    /\ assigned["b"] = <<<<1>>>>
    /\ saved_model[<<"b", <<1>>>>] = "m2"
    /\ result.status = "ok"
    /\ result.ret_version = <<1>>
    /\ result.ret_model = "m1"

\* C14: when the storage backend raises during save_model, the call raises
\* and leaves the index and the metadata store as they were, with no record
\* of the version; the next save_model of the same name is assigned the
\* version the failed call would have been assigned.
C14_StorageFailureLeavesIndex ==
    [][/\ result'.status = "OSError" =>
              /\ metadata' = metadata
              /\ json_doc' = json_doc
              /\ mr_models' = mr_models
              /\ mr_model_versions' = mr_model_versions
              /\ mr_model_tags' = mr_model_tags
              /\ assigned' = assigned
       /\ \A n \in Names :
              (Saved(n) /\ failed_save[n].open) =>
                  Last(assigned'[n]) = failed_save[n].version
      ]_vars

\* A save of "a" failed in storage on an index holding version "1" of "a", and
\* the next save of "a" returned "2".
C14_Witness ==
    /\ failed_save["a"] = [version |-> <<2>>, open |-> FALSE]
    /\ assigned["a"] = <<<<1>>, <<2>>>>
    /\ result = Returned("ok", <<2>>, NoModel)

\* C15: when the metadata store raises in the save step of save_model, the
\* call raises, the index holds the new record (nothing is taken back), the
\* file of the model is stored, and the metadata store does not hold the
\* record: a readable registry.json does not list it, and mr_model_versions
\* has gained no row of that name and version.
C15_MetadataFailureKeepsRecord ==
    [][\A model \in Artifacts, n \in Names :
          SaveModelMetadataFails(model, n, NoTags) =>
              LET v == _get_next_version(metadata, n)
              IN  /\ result'.status \notin {"ok"}
                  /\ assigned' = assigned
                  /\ v \notin VersionsIn(metadata, n)
                  /\ v \in VersionsIn(metadata', n)
                  /\ Last(metadata'[n]).version = v
                  /\ Last(metadata'[n]).storage_path = model_path(n, v)
                  /\ model_exists(storage', model_path(n, v))
                  /\ storage'[model_path(n, v)] = model
                  /\ (kind = "local" /\ json_doc'.valid)
                        => v \notin VersionsIn(load_metadata', n)
                  /\ kind = "database" =>
                        \A row \in mr_model_versions' \ mr_model_versions :
                            ~(row.name = n /\ row.version = v)
      ]_vars

\* C16: a save_metadata call of the database backend that is to insert several
\* rows is one transaction: when one of its insertions raises, none of the
\* rows of the call is in the database.
C16_SaveMetadataIsOneTransaction ==
    [][\A model \in Artifacts, n \in Names :
          (kind = "database" /\ SaveModelMetadataFails(model, n, NoTags)) =>
              /\ mr_models' = mr_models
              /\ mr_model_versions' = mr_model_versions
              /\ mr_model_tags' = mr_model_tags
      ]_vars

\* C17: after any sequence of save_model_metadata and delete_model_version
\* calls, every row of mr_model_versions has its row of mr_models, every row
\* of mr_model_tags has its row of mr_model_versions, and no row of mr_models
\* is without a version: delete_model_version removes the version row with
\* its tag rows, and the model row with its last version.
C17_ReferentialInvariants ==
    /\ \A r \in mr_model_versions : r.name \in mr_models
    /\ \A t \in mr_model_tags :
           \E r \in mr_model_versions : r.id = t.model_version_id
    /\ \A m \in mr_models : \E r \in mr_model_versions : r.name = m

\* C18: of two registries on the same stores, each computes the next version
\* from its own index, which only its own calls change: a registry resumes
\* with the index it had, whatever the other one saved meanwhile, and its
\* save_model is assigned (the greatest version of that index) + 1 and leaves
\* the other registry's index alone.  Hence both can be assigned the same
\* version of a name and write the same path.
C18_VersionFromOwnIndex ==
    [][/\ \A n \in Names :
              Saved(n) =>
                  /\ Last(assigned'[n]) =
                        IF VersionNumbers(metadata, n) = {} THEN str(1)
                        ELSE str(max_version(metadata[n]) + 1)
                  /\ model_exists(storage', model_path(n, Last(assigned'[n])))
                  /\ other' = other
       /\ other'.registry # other.registry =>
              /\ metadata' = other.heap.md
              /\ other'.heap.md = metadata
      ]_vars

\* With no delete and no restart, two saves of "a" were both assigned "1":
\* each registry lists its own version "1", and there is one file.
C18_Witness ==
    /\ deleted = {}
    /\ generation = 0
    /\ assigned["a"] = <<<<1>>, <<1>>>>
    /\ VersionsIn(metadata, "a") = {<<1>>}
    /\ VersionsIn(other.heap.md, "a") = {<<1>>}
    /\ DOMAIN storage = {model_path("a", <<1>>)}

\* The tags of the record of version v of n in the index md.
TagsIn(md, n, v) ==
    {md[n][i].tags : i \in {j \in 1..Len(md[n]) : md[n][j].version = v}}

\* The tags hold a value that is not a string.
NonString(tags) == \E k \in DOMAIN tags : tags[k].type # "str"

\* C19: a tag saved with a value that is not a string is read back with the
\* string form of the value, from list_models() and, where it lists the
\* version, from a registry constructed afterwards, with either metadata
\* store.
C19_TagsReadBackAsStrings ==
    [][\A n \in Names, tags \in TagDicts :
          (NonString(tags) /\ SaveModel("m1", n, tags)) =>
              LET v == Last(assigned'[n])
              IN  /\ TagsIn(metadata', n, v) = {stringified(tags)}
                  /\ v \in VersionsIn(load_metadata', n) =>
                        TagsIn(load_metadata', n, v) = {stringified(tags)}
      ]_vars

\* The sizes of the models that save_model stored, summed over keys of saved_model.
RECURSIVE SavedSize(_)
SavedSize(keys) ==
    IF keys = {} THEN 0
    ELSE LET k == CHOOSE k \in keys : TRUE
         IN  getsize(saved_model[k]) + SavedSize(keys \ {k})

\* C20: with the database store, after any sequence of save_model calls (no
\* delete), get_statistics() reports the number of names saved, the number of
\* versions saved and the sum of their file sizes, and for each name its
\* number of versions, their size and its latest version.
C20_StatisticsMatchSaves ==
    (kind = "database" /\ deleted = {}) =>
        LET stats == get_statistics(Database)
            saved == {n \in Names : assigned[n] # <<>>}
        IN  /\ stats.summary.total_models = Cardinality(saved)
            /\ stats.summary.total_versions = SavesSoFar
            /\ stats.summary.total_size_bytes = SavedSize(DOMAIN saved_model)
            /\ DOMAIN stats.models = saved
            /\ \A n \in saved :
                   /\ stats.models[n].version_count = Len(assigned[n])
                   /\ stats.models[n].total_size_bytes =
                         SavedSize({k \in DOMAIN saved_model : k[1] = n})
                   /\ stats.models[n].latest_version = Last(assigned[n])

\* The version rows that have a tag row of the key (and of the value, when one
\* is given) and a row of mr_models.
Tagged(tag_key, tag_value) ==
    {r \in mr_model_versions :
        /\ r.name \in mr_models
        /\ \E t \in mr_model_tags :
               /\ t.model_version_id = r.id
               /\ t.tag_key = tag_key
               /\ tag_value # NoValue => t.tag_value = tag_value}

\* No two rows of mr_model_versions are of the same name and version.
DistinctRows ==
    \A r, q \in mr_model_versions :
        (r.name = q.name /\ r.version = q.version) => r = q

C22_FactoryWiresOrFails ==
    [][\A storage_type \in Selectors :
          CreateRegistry(storage_type) =>
              IF storage_type \in {"local", "database"}
              THEN /\ result'.status = "ok"
                   /\ kind' = storage_type
                   /\ {"ModelRegistry", "LocalStorageBackend"} \subseteq constructed'
                   /\ (IF storage_type = "local" THEN "JSONMetadataBackend"
                       ELSE "DatabaseMetadataBackend") \in constructed'
                   /\ metadata' = load_metadata'
              ELSE /\ result'.status = IF storage_type = "s3"
                                       THEN "NotImplementedError" ELSE "ValueError"
                   /\ constructed' = constructed
                   /\ UNCHANGED <<kind, metadata, current_metadata, same_dict,
                                  shared_lists, key_order, json_doc, tables,
                                  storage>>
      ]_vars

\* Two calls, with "s3" and with a selector that is not known, have raised
\* and nothing was constructed; the second raised ValueError.
C22_Witness ==
    /\ generation = 2
    /\ kind = "none"
    /\ constructed = {}
    /\ result.status = "ValueError"

\* C23: JSONMetadataBackend.load_metadata returns the empty index while no
\* document was written, and afterwards exactly the index that the latest
\* save_metadata call was given: of the indexes of earlier calls nothing stays.
C23_JsonLoadReturnsLastSaved ==
    [][JsonLoadMetadata =>
          /\ json_doc' = json_doc
          /\ result'.index = IF ~json_doc.exists THEN EmptyDict ELSE metadata
      ]_vars

\* An index of two names with a number as tag was saved, then an index of "b"
\* alone, and load_metadata returned the latter.
C23_Witness ==
    /\ "index" \in DOMAIN result
    /\ DOMAIN result.index = {"b"}
    /\ result.index = metadata
    /\ Len(result.index["b"]) = 2
    /\ result.index["b"][1].tags = ("k" :> py_int(5))
    /\ json_doc.exists

\* The records of the index md, and the rows read as records.
RecordsIn(md) == UNION {{md[n][i] : i \in 1..Len(md[n])} : n \in DOMAIN md}

\* Every record this registry lists, every record a registry constructed now
\* would list and every row of mr_model_versions has this file name in the
\* path {name}/v{version}/{file}.
PathsEndIn(file) ==
    /\ \A info \in RecordsIn(metadata) \cup RecordsIn(load_metadata) :
           info.storage_path =
               [dir |-> info.name, vdir |-> info.version, file |-> file]
    /\ \A r \in mr_model_versions :
           r.storage_path = [dir |-> r.name, vdir |-> r.version, file |-> file]

\* C24, as the specification words it: the storage_path of every record is
\* {name}/v{version}/artifact.
C24_PathIsArtifact == PathsEndIn("artifact")

\* C24, as the code has it: the storage_path of every record is
\* {name}/v{version}/model.pkl, derived from the name and the version of the
\* record alone, in the index, in the metadata store and after a restart; a
\* record keeps the path it was created with.
C24_PathIsModelPkl ==
    /\ PathsEndIn("model.pkl")
    /\ \A n \in DOMAIN metadata :
           \A i \in 1..Len(metadata[n]) : metadata[n][i].name = n

\* A registry constructed after saves and a delete lists version "2" of "a".
C24_Witness ==
    /\ generation >= 1
    /\ deleted # {}
    /\ \E info \in RecordsIn(metadata) :
           /\ info.name = "a"
           /\ info.version = <<2>>
           /\ info.storage_path = [dir |-> "a", vdir |-> <<2>>, file |-> "model.pkl"]

\* C25: a deployment key that is in active_deployments is in loaded_models,
\* and after any deploy, predict, save_model or delete_model it is in both
\* still, with the same model; it leaves them only by the undeploy request of
\* that key.  A predict request that names the key is answered by that model.
C25_DeploymentsPersist ==
    [][/\ \A key \in DOMAIN active_deployments :
              /\ key \in DOMAIN loaded_models
              /\ \/ /\ key \in DOMAIN active_deployments'
                    /\ key \in DOMAIN loaded_models'
                    /\ loaded_models'[key] = loaded_models[key]
                 \/ result' = Response("undeployed", key, NoModel)
       /\ \A name \in Names, version \in VersionArgs(MaxSaves) \ {None} :
              ( /\ get_deployment_key(name, version) \in DOMAIN active_deployments
                /\ UniversalPredict(name, version, "input") )
                  => result' = Response("ok", get_deployment_key(name, version),
                                        loaded_models[get_deployment_key(name, version)])
      ]_vars

\* Version "1" of "a" was deployed with the model m1, deleted from the
\* registry and saved again with m2, version "2" was deployed, and a predict
\* request for "1" was answered by m1.
C25_Witness ==
    /\ assigned["a"] = <<<<1>>, <<1>>, <<2>>>>
    /\ saved_model[<<"a", <<1>>>>] = "m2"
    /\ DOMAIN active_deployments =
          {get_deployment_key("a", <<1>>), get_deployment_key("a", <<2>>)}
    /\ result = Response("ok", get_deployment_key("a", <<1>>), "m1")

\* The (name, version) pairs of the records of the index md.
PairsIn(md) == {<<info.name, info.version>> : info \in RecordsIn(md)}

\* C26: with the database store, after any sequence of registry
\* constructions, saves and deletes, _current_metadata holds exactly the
\* (name, version) pairs that are rows of mr_model_versions.
C26_SnapshotMatchesRows ==
    kind = "database" =>
        PairsIn(current_metadata) =
            {<<r.name, r.version>> : r \in mr_model_versions}

\* C27: save_model stores the file, then appends the record to the index,
\* then has the metadata store save the whole index.  A call that ends early
\* has done a first part of this: a record comes into the index only with its
\* file stored, the metadata store is written only with records that are in
\* the index and have their file, and a call that raises in the storage
\* backend has changed neither the index nor the store.  A call that returns
\* has saved the entire index.
C27_SaveStoresThenAppendsThenPersists ==
    [][/\ \A n \in Names :
              /\ \A v \in VersionsIn(metadata', n) \ VersionsIn(metadata, n) :
                     /\ <<n, v>> \in DOMAIN saved_model'
                     /\ model_exists(storage', model_path(n, v))
                     /\ storage'[model_path(n, v)] = saved_model'[<<n, v>>]
              /\ Saved(n) =>
                     /\ Last(assigned'[n]) \in VersionsIn(metadata', n)
                     /\ kind = "local" => json_doc' = json_dump(metadata')
                     /\ kind = "database" => current_metadata' = metadata'
       /\ \A row \in mr_model_versions' \ mr_model_versions :
              /\ row.version \in VersionsIn(metadata', row.name)
              /\ <<row.name, row.version>> \in DOMAIN saved_model'
              /\ model_exists(storage', row.storage_path)
       /\ (json_doc' # json_doc /\ json_doc'.valid) =>
              /\ json_doc' = json_dump(metadata')
              /\ \A info \in RecordsIn(metadata') :
                     model_exists(storage', info.storage_path)
       /\ result'.status = "OSError" =>
              UNCHANGED <<metadata, json_doc, tables>>
      ]_vars

\* A save of "a" has ended in the metadata store and the next in the storage
\* backend, and a save has then returned "2": the index holds two versions of
\* "a" with their files.
C27_Witness ==
    /\ failures >= 2
    /\ failed_save["a"] = [version |-> <<2>>, open |-> FALSE]
    /\ VersionsIn(metadata, "a") = {<<1>>, <<2>>}
    /\ result = Returned("ok", <<2>>, NoModel)
    /\ model_exists(storage, model_path("a", <<2>>))

\* C28: delete_model removes the record from the index (and the key of a name
\* left without records) first, then has the storage backend delete the file,
\* then has the metadata store save the index: a delete_model call that ends
\* in the storage backend has removed the record from the index and has not
\* written the metadata store.
C28_DeleteRemovesRecordFirst ==
    [][\A n \in Names, v \in VersionArgs(MaxSaves) :
          (IndexHolds(n, v) /\ DeleteModelStorageFails(n, v)) =>
              /\ Target(n, v) \notin VersionsIn(metadata', n)
              /\ UNCHANGED <<json_doc, tables>>
      ]_vars

\* C29: in every state of a registry, after any sequence of save_model and
\* delete_model calls, those that raised included, every name of the index
\* has a list of at least one record, and no two records of a name have the
\* same version.
C29_IndexWellFormed ==
    \A n \in DOMAIN metadata :
        /\ Len(metadata[n]) > 0
        /\ \A i, j \in 1..Len(metadata[n]) :
               i # j => metadata[n][i].version # metadata[n][j].version
        /\ \A i \in 1..Len(metadata[n]) : metadata[n][i].name = n

\* A save that raised in the metadata store left version "3" of "a" in the
\* index, from which "1" was deleted before: "2" and "3" are listed.
C29_Witness ==
    /\ result.status = "StoreError"
    /\ "a" \in deleted
    /\ HasKey(metadata, "a")
    /\ Len(metadata["a"]) = 2
    /\ metadata["a"][1].version = <<2>>
    /\ metadata["a"][2].version = <<3>>

\* C30: a save_model_metadata call is one transaction.  When a statement of
\* it raises, the call raises and the three tables are as they were before
\* it: no model row, version row or tag row of the call stays.  When it
\* returns, the model row, the version row and a row for each tag are there.
C30_VersionInsertIsAtomic ==
    [][\A info \in Infos :
          /\ SqlSaveModelMetadataFails(info) =>
                 /\ result'.status # "ok"
                 /\ UNCHANGED tables
          /\ SqlSaveModelMetadata(info) =>
                 /\ info.name \in mr_models'
                 /\ mr_models' \subseteq mr_models \cup {info.name}
                 /\ \E row \in mr_model_versions' :
                        /\ row \notin mr_model_versions
                        /\ mr_model_versions' = mr_model_versions \cup {row}
                        /\ row.name = info.name
                        /\ row.version = info.version
                        /\ {t \in mr_model_tags' : t.model_version_id = row.id} =
                              {[model_version_id |-> row.id, tag_key |-> k,
                                tag_value |-> str_of(info.tags[k])] :
                                  k \in DOMAIN info.tags}
      ]_vars

\* A save_model_metadata call raised on a database that holds one version
\* with its tag: one model, one version row, one tag row are there as before.
C30_Witness ==
    /\ result.status = "StoreError"
    /\ mr_models = {"a"}
    /\ Cardinality(mr_model_versions) = 1
    /\ Cardinality(mr_model_tags) = 1

\* C31: with the database store and one registry at a time, a step never
\* leaves two rows of mr_model_versions of the same name and version, and no
\* row that a step adds is of a name and version that a row already had.
C31_NoDuplicateVersionRows ==
    [][kind = "database" =>
          /\ DistinctRows'
          /\ \A r \in mr_model_versions' \ mr_model_versions :
                 ~ \E q \in mr_model_versions :
                        q.name = r.name /\ q.version = r.version
      ]_vars

\* C32: a load_model, delete_model or get_latest_version call that raises the
\* ValueError of a name, or of an explicit version, that the index does not
\* have leaves the index, the files of the storage backend and the metadata
\* store (the JSON file, the tables, the snapshot of the database backend) as
\* they were.
C32_NotFoundChangesNothing ==
    [][\A name \in Names, version \in VersionArgs(MaxSaves) :
          (/\ \/ LoadModel(name, version)
              \/ DeleteModel(name, version)
              \/ GetLatestVersion(name)
           /\ result'.status = "ValueError")
          => UNCHANGED <<metadata, storage, json_doc, tables, current_metadata,
                         same_dict, shared_lists, key_order>>
      ]_vars

\* A call raised ValueError on a registry that holds two versions of "a" and
\* their files: the name or the version asked for was another one.
C32_Witness ==
    /\ result.status = "ValueError"
    /\ HasKey(metadata, "a")
    /\ VersionsIn(metadata, "a") = {str(1), str(2)}
    /\ model_exists(storage, model_path("a", str(1)))
    /\ model_exists(storage, model_path("a", str(2)))

====
